---- MODULE Spec2Model ----
(***************************************************************************)
(* Model of jira-pr-link-action: the helpers (pattern construction, ticket *)
(* extraction, link formatting, body reconciliation) and the run()         *)
(* orchestration with its two network calls (pulls.get, pulls.update).     *)
(*                                                                         *)
(* Strings are sequences of character tokens.  One token stands for one    *)
(* character, except "P" (the fixed prefix literal of the link line),      *)
(* "/browse/" and "https://" which stand for fixed multi-character         *)
(* literals that the code never splits.  "SP" is a space, "NL" a newline.  *)
(***************************************************************************)
EXTENDS Integers, Sequences, FiniteSets, TLC

\* ------------------------------------------------------------------------
\* Bounds of the model
\* ------------------------------------------------------------------------
MaxPieces == 4
MaxInitPieces == 2
MaxTitleLen == 4
MaxRuns == 2
MaxWorkflowRuns == 3
MaxOverlappingRuns == 2

\* ------------------------------------------------------------------------
\* Characters
\* ------------------------------------------------------------------------
Upper == {"A", "B"}
Digit == {"0", "1"}
Word == Upper \cup Digit \cup {"_"}
Space == {"SP", "NL"}
Chars == Word \cup Space \cup
         {"P", "[", "]", "(", ")", "-", "x", "/", "/browse/", "https://", "j"}
NotNewline == Chars \ {"NL"}

Min2(a, b) == IF a < b THEN a ELSE b

\* ------------------------------------------------------------------------
\* Regular expressions: a regex source is a sequence of tokens, each an
\* atom (a character class with a quantifier), a group paren or an
\* assertion.  Matching is the backtracking search of the regex engine:
\* greedy quantifiers try the longest run first, lazy ones the shortest.
\* ------------------------------------------------------------------------
AtomClass(tok) ==
  CASE tok = "P" -> {"P"}
    [] tok = "\\[" -> {"["}
    [] tok = "\\]" -> {"]"}
    [] tok = "\\(" -> {"("}
    [] tok = "\\)" -> {")"}
    [] tok = "-" -> {"-"}
    [] tok = "A" -> {"A"}
    [] tok = "B" -> {"B"}
    [] tok = "[A-Z]" -> Upper
    [] tok = "[A-Z]+" -> Upper
    [] tok = "[A-Z0-9_]*" -> Word
    [] tok = "\\d+" -> Digit
    [] tok = ".+?" -> NotNewline
    [] tok = "\\s*" -> Space
    [] OTHER -> {}

AtomMin(tok) == IF tok \in {"[A-Z0-9_]*", "\\s*"} THEN 0 ELSE 1
AtomUnbounded(tok) == tok \in {"[A-Z]+", "[A-Z0-9_]*", "\\d+", ".+?", "\\s*"}
AtomLazy(tok) == tok = ".+?"

\* Number of consecutive characters of s from position i that are in cls.
RECURSIVE RunLength(_, _, _)
RunLength(cls, s, i) ==
  IF i > Len(s) \/ s[i] \notin cls THEN 0 ELSE 1 + RunLength(cls, s, i + 1)

\* Position of the first "(" of the source (capture group 1), 0 if none.
RECURSIVE FirstOpen(_, _)
FirstOpen(re, k) ==
  IF k > Len(re) THEN 0 ELSE IF re[k] = "(" THEN k ELSE FirstOpen(re, k + 1)

\* Position of the ")" closing the group opened before position k at depth d.
RECURSIVE MatchingClose(_, _, _)
MatchingClose(re, k, d) ==
  IF k > Len(re) THEN 0
  ELSE IF re[k] = "(" THEN MatchingClose(re, k + 1, d + 1)
  ELSE IF re[k] = ")" THEN (IF d = 1 THEN k ELSE MatchingClose(re, k + 1, d - 1))
  ELSE MatchingClose(re, k + 1, d)

NoMatch == [ok |-> FALSE, from |-> 0, to |-> 0, gs |-> 0, ge |-> 0]

\* MatchHere: match re[k..] against s at position i; gs/ge are the bounds of
\* capture group 1 so far.  TryCount walks the repetition counts of a
\* quantified atom in the engine's order and returns the first success.
RECURSIVE MatchHere(_, _, _, _, _, _, _)
RECURSIVE TryCount(_, _, _, _, _, _, _, _, _, _)
TryCount(re, m, k, s, i, gs, ge, n, last, step) ==
  LET r == MatchHere(re, m, k + 1, s, i + n, gs, ge)
  IN IF r.ok THEN r
     ELSE IF n = last THEN NoMatch
     ELSE TryCount(re, m, k, s, i, gs, ge, n + step, last, step)

MatchHere(re, m, k, s, i, gs, ge) ==
  IF k > Len(re) THEN [ok |-> TRUE, from |-> 0, to |-> i, gs |-> gs, ge |-> ge]
  ELSE LET tok == re[k] IN
    CASE tok = "^" ->
           IF i = 1 \/ (m /\ s[i - 1] = "NL")
           THEN MatchHere(re, m, k + 1, s, i, gs, ge) ELSE NoMatch
      [] tok = "$" ->
           IF i = Len(s) + 1 \/ (m /\ s[i] = "NL")
           THEN MatchHere(re, m, k + 1, s, i, gs, ge) ELSE NoMatch
      [] tok = "(" ->
           MatchHere(re, m, k + 1, s, i, IF k = FirstOpen(re, 1) THEN i ELSE gs, ge)
      [] tok = ")" ->
           MatchHere(re, m, k + 1, s, i, gs,
                     IF k = MatchingClose(re, FirstOpen(re, 1) + 1, 1) THEN i ELSE ge)
      [] OTHER ->
           LET run == RunLength(AtomClass(tok), s, i)
               lo == AtomMin(tok)
               hi == IF AtomUnbounded(tok) THEN run ELSE Min2(run, 1)
           IN IF hi < lo THEN NoMatch
              ELSE IF AtomLazy(tok)
                   THEN TryCount(re, m, k, s, i, gs, ge, lo, hi, 1)
                   ELSE TryCount(re, m, k, s, i, gs, ge, hi, lo, -1)

\* The leftmost match of the regex in s (RegExp.prototype.exec without g).
RECURSIVE SearchFrom(_, _, _, _)
SearchFrom(re, m, s, i) ==
  IF i > Len(s) + 1 THEN NoMatch
  ELSE LET r == MatchHere(re, m, 1, s, i, 0, 0)
       IN IF r.ok THEN [r EXCEPT !.from = i] ELSE SearchFrom(re, m, s, i + 1)

Exec(regex, s) == SearchFrom(regex.source, regex.multiline, s, 1)

\* RegExp.prototype.test
Test(regex, s) == Exec(regex, s).ok

\* String.prototype.replace(regex, replacement) for a regex without the g flag.
Replace(s, regex, replacement) ==
  LET r == Exec(regex, s)
  IN IF r.ok
     THEN SubSeq(s, 1, r.from - 1) \o replacement \o SubSeq(s, r.to, Len(s))
     ELSE s

\* String.prototype.trim
RECURSIVE TrimStart(_)
TrimStart(s) ==
  IF s # <<>> /\ Head(s) \in Space THEN TrimStart(Tail(s)) ELSE s

RECURSIVE TrimEnd(_)
TrimEnd(s) ==
  IF s # <<>> /\ s[Len(s)] \in Space THEN TrimEnd(SubSeq(s, 1, Len(s) - 1)) ELSE s

Trim(s) == TrimEnd(TrimStart(s))

\* String.prototype.includes for a single character
Includes(s, c) == \E k \in 1..Len(s) : s[k] = c

\* new RegExp(source) throws a SyntaxError on unbalanced group parens.
RECURSIVE ParenDepthOk(_, _, _)
ParenDepthOk(re, k, d) ==
  IF k > Len(re) THEN d = 0
  ELSE IF re[k] = "(" THEN ParenDepthOk(re, k + 1, d + 1)
  ELSE IF re[k] = ")" THEN d > 0 /\ ParenDepthOk(re, k + 1, d - 1)
  ELSE ParenDepthOk(re, k + 1, d)

RegExpCompiles(source) == ParenDepthOk(source, 1, 0)

\* ------------------------------------------------------------------------
\* helpers.ts
\* ------------------------------------------------------------------------
Null == <<"<null>">>
Truthy(v) == v # Null /\ v # <<>>

Returned(v) == [status |-> "returned", value |-> v]
Threw(msg) == [status |-> "threw", value |-> <<msg>>]

DEFAULT_TICKET_PATTERN == <<"(", "[A-Z]", "[A-Z0-9_]*", "-", "\\d+", ")">>

JIRA_LINK_MODES == {"body-start", "body-end"}

\* URL strings: new URL(s) accepts an absolute URL with a scheme and a host.
IsValidURL(u) == Len(u) >= 2 /\ u[1] = "https://" /\ u[2] = "j"

\* .replace(/\/$/, ''): strips exactly one trailing slash.
StripTrailingSlash(u) ==
  IF u # <<>> /\ u[Len(u)] = "/" THEN SubSeq(u, 1, Len(u) - 1) ELSE u

\* validateInputVariables: in holds the raw action inputs.
validateInputVariables(in) ==
  LET token == in.token
      jiraBaseUrl == StripTrailingSlash(in.jiraBaseUrl)
      jiraLinkMode == IF in.jiraLinkMode = "" THEN "body-start" ELSE in.jiraLinkMode
  IN IF token = "" THEN [ok |-> FALSE, error |-> "token"]
     ELSE IF in.jiraBaseUrl = <<>> \/ jiraBaseUrl = <<>>
          THEN [ok |-> FALSE, error |-> "jira-base-url required"]
     ELSE IF ~IsValidURL(jiraBaseUrl)
          THEN [ok |-> FALSE, error |-> "jira-base-url invalid"]
     ELSE IF jiraLinkMode \notin JIRA_LINK_MODES
          THEN [ok |-> FALSE, error |-> "jira-link-mode"]
     ELSE [ok |-> TRUE, error |-> "", token |-> token,
           jiraBaseUrl |-> jiraBaseUrl, jiraLinkMode |-> jiraLinkMode]

HasOpenParen(p) == \E k \in 1..Len(p) : p[k] \in {"(", "\\("}

\* getJiraPatterns: issuePatternInput is the 'issue-pattern' input, <<>> when
\* not given.  ok is FALSE when new RegExp throws.
getJiraPatterns(issuePatternInput) ==
  LET ticketPattern ==
        IF issuePatternInput # <<>>
        THEN (IF HasOpenParen(issuePatternInput) THEN issuePatternInput
              ELSE <<"(">> \o issuePatternInput \o <<")">>)
        ELSE DEFAULT_TICKET_PATTERN
      linkPattern == <<"^", "P", "\\[">> \o ticketPattern \o
                     <<"\\]", "\\(", ".+?", "\\)", "\\s*", "$">>
  IN [ok |-> RegExpCompiles(ticketPattern) /\ RegExpCompiles(linkPattern),
      JIRA_TICKET_REGEX |-> [source |-> ticketPattern, multiline |-> FALSE],
      JIRA_LINK_LINE_REGEX |-> [source |-> linkPattern, multiline |-> TRUE]]

\* extractJiraTicket: match[1] of the first match, or null.
extractJiraTicket(issuePatternInput, text) ==
  LET patterns == getJiraPatterns(issuePatternInput)
      match == Exec(patterns.JIRA_TICKET_REGEX, text)
  IN IF ~patterns.ok THEN Threw("Invalid regular expression")
     ELSE IF ~match.ok THEN Returned(Null)
     ELSE IF match.gs = 0 \/ match.ge = 0 THEN Returned(Null)
     ELSE Returned(SubSeq(text, match.gs, match.ge - 1))

generateJiraLink(jiraBaseUrl, ticket) ==
  <<"P", "[">> \o ticket \o <<"]", "(">> \o jiraBaseUrl \o <<"/browse/">> \o
  ticket \o <<")">>

removeExistingJiraLink(issuePatternInput, prBody) ==
  LET patterns == getJiraPatterns(issuePatternInput)
  IN IF ~patterns.ok THEN Threw("Invalid regular expression")
     ELSE Returned(Trim(Replace(prBody, patterns.JIRA_LINK_LINE_REGEX, <<>>)))

updatePRBodyWithJiraLinkNoTrim(issuePatternInput, prBody, jiraLink, jiraLinkMode) ==
  LET patterns == getJiraPatterns(issuePatternInput)
  IN IF ~patterns.ok THEN Threw("Invalid regular expression")
     ELSE IF Test(patterns.JIRA_LINK_LINE_REGEX, prBody)
          THEN Returned(Replace(prBody, patterns.JIRA_LINK_LINE_REGEX, jiraLink))
     ELSE IF jiraLinkMode = "body-start"
          THEN Returned(jiraLink \o <<"NL", "NL">> \o prBody)
     ELSE IF jiraLinkMode = "body-end"
          THEN Returned(prBody \o <<"NL", "NL">> \o jiraLink)
     ELSE Threw("Unsupported JIRA_LINK_MODE")

updatePRBodyWithJiraLink(issuePatternInput, prBody, jiraLink, jiraLinkMode) ==
  LET patterns == getJiraPatterns(issuePatternInput)
  IN IF ~patterns.ok THEN Threw("Invalid regular expression")
     ELSE IF Test(patterns.JIRA_LINK_LINE_REGEX, prBody)
          THEN Returned(Replace(prBody, patterns.JIRA_LINK_LINE_REGEX, jiraLink))
     ELSE IF jiraLinkMode = "body-start"
          THEN Returned(Trim(jiraLink \o <<"NL", "NL">> \o prBody))
     ELSE IF jiraLinkMode = "body-end"
          THEN Returned(Trim(prBody \o <<"NL", "NL">> \o jiraLink))
     ELSE Threw("Unsupported JIRA_LINK_MODE")

\* ------------------------------------------------------------------------
\* Input domains
\* ------------------------------------------------------------------------
Ticket1 == <<"A", "B", "-", "1">>
Ticket2 == <<"B", "-", "0">>
BaseUrl == <<"https://", "j">>
Link1 == generateJiraLink(BaseUrl, Ticket1)
Link2 == generateJiraLink(BaseUrl, Ticket2)
Links == {Link1, Link2}

Pieces == {<<"NL">>, <<"SP">>, <<"x">>, <<"x", "NL">>, Link1, Link2}

\* Bodies made of at most n pieces.
RECURSIVE BodiesOf(_)
BodiesOf(n) ==
  IF n = 0 THEN {<<>>}
  ELSE LET prev == BodiesOf(n - 1)
       IN prev \cup {b \o p : b \in prev, p \in Pieces}

Bodies == BodiesOf(MaxPieces)

TitleChars == {"A", "B", "0", "1", "_", "-", "x"}

RECURSIVE TitlesOf(_)
TitlesOf(n) ==
  IF n = 0 THEN {<<>>}
  ELSE LET prev == TitlesOf(n - 1)
       IN prev \cup {t \o <<c>> : t \in prev, c \in TitleChars}

Titles == TitlesOf(MaxTitleLen)

\* Titles a pull request carries in the run model.
PrTitles == {<<"x">>, Ticket1 \o <<"x">>, <<"x">> \o Ticket2}

EventNames == {"pull_request", "push"}
Tokens == {"", "t"}
BaseUrlInputs == {<<>>, <<"/">>, <<"j">>, <<"https://", "j">>, <<"https://", "j", "/">>}
ModeInputs == {"", "body-start", "body-end", "body-middle"}
IssuePatternInputs == {<<>>, <<"(">>, <<")">>}

Inputs == [eventName : EventNames, token : Tokens, jiraBaseUrl : BaseUrlInputs,
           jiraLinkMode : ModeInputs, issuePattern : IssuePatternInputs,
           hasPrNumber : BOOLEAN]

NoInputs == [eventName |-> "", token |-> "", jiraBaseUrl |-> <<>>,
             jiraLinkMode |-> "", issuePattern |-> <<>>, hasPrNumber |-> FALSE]

\* The number of link lines of a body under the default pattern: the line
\* starts at which JIRA_LINK_LINE_REGEX matches.
LinkLineStarts(body) ==
  LET regex == getJiraPatterns(<<>>).JIRA_LINK_LINE_REGEX
  IN {i \in 1..Len(body) : MatchHere(regex.source, TRUE, 1, body, i, 0, 0).ok}

LinkLineCount(body) == Cardinality(LinkLineStarts(body))

InitBodies == {b \in BodiesOf(MaxInitPieces) : LinkLineCount(b) <= 1}

\* ------------------------------------------------------------------------
\* State
\* ------------------------------------------------------------------------
Runners == {1, 2}

VARIABLES
  description,  \* the pull request description held by the host (Null: none)
  title,        \* the pull request title held by the host
  pc,           \* per run: idle, awaitGet, awaitUpdate, done, failed
  inputs,       \* per run: the action inputs and event of the run
  prTitle,      \* per run: pr.title ?? '' of the fetched pull request
  prBody,       \* per run: pr.body ?? '' of the fetched pull request
  newBody,      \* per run: the body handed to pulls.update
  getCalls,     \* per run: number of pulls.get calls issued
  updateCalls,  \* per run: number of pulls.update calls issued
  failure,      \* per run: what core.setFailed reported, "" if nothing
  runs,         \* number of runs started
  writes,       \* number of pulls.update calls issued by all runs so far
  workflow,     \* the event and `with:` inputs the workflow file gives each run
  call          \* a direct call of one helper function and its results

vars == <<description, title, pc, inputs, prTitle, prBody, newBody, getCalls,
          updateCalls, failure, runs, writes, workflow, call>>

runVars == <<description, title, pc, inputs, prTitle, prBody, newBody, getCalls,
             updateCalls, failure, runs, writes, workflow>>

Pending == [status |-> "pending", value |-> <<>>]

NoCall == [op |-> "none", body |-> <<>>, link |-> <<>>, mode |-> "",
           title |-> <<>>, pattern |-> <<>>, url |-> <<>>,
           ret |-> Pending, ret2 |-> Pending]

RunInit ==
  /\ pc = [r \in Runners |-> "idle"]
  /\ inputs = [r \in Runners |-> NoInputs]
  /\ prTitle = [r \in Runners |-> <<>>]
  /\ prBody = [r \in Runners |-> <<>>]
  /\ newBody = [r \in Runners |-> <<>>]
  /\ getCalls = [r \in Runners |-> 0]
  /\ updateCalls = [r \in Runners |-> 0]
  /\ failure = [r \in Runners |-> ""]
  /\ runs = 0
  /\ writes = 0

\* ------------------------------------------------------------------------
\* Direct calls of the helper functions (default issue pattern)
\* ------------------------------------------------------------------------
FnModes == JIRA_LINK_MODES \cup {"body-middle"}

\* issue-pattern inputs of the direct calls: none, a fragment without a
\* group (wrapped by getJiraPatterns) and a fragment with its own group.
FnPatterns == {<<>>, <<"[A-Z]+", "-", "\\d+">>, <<"(", "[A-Z]+", ")", "-", "\\d+">>}

\* jira-base-url inputs that validateInputVariables accepts.
ValidBaseUrlInputs ==
  {u \in BaseUrlInputs :
     validateInputVariables([token |-> "t", jiraBaseUrl |-> u, jiraLinkMode |-> ""]).ok}

FnInit ==
  /\ description = <<>>
  /\ title = <<>>
  /\ RunInit
  /\ workflow = NoInputs
  /\ \/ \E b \in Bodies, l \in Links, m \in FnModes :
          call = [NoCall EXCEPT !.op = "update", !.body = b, !.link = l, !.mode = m]
     \/ \E b \in Bodies :
          call = [NoCall EXCEPT !.op = "remove", !.body = b]
     \/ \E t \in Titles :
          call = [NoCall EXCEPT !.op = "extract", !.title = t]
     \/ \E t \in Titles, p \in FnPatterns, u \in ValidBaseUrlInputs :
          call = [NoCall EXCEPT !.op = "link", !.title = t, !.pattern = p, !.url = u]

\* updatePRBodyWithJiraLink(prBody, jiraLink, jiraLinkMode)
CallUpdate ==
  /\ call.op = "update" /\ call.ret = Pending
  /\ call' = [call EXCEPT !.ret =
                updatePRBodyWithJiraLink(<<>>, call.body, call.link, call.mode)]
  /\ UNCHANGED runVars

\* updatePRBodyWithJiraLink applied to its own result
CallUpdateAgain ==
  /\ call.op = "update" /\ call.ret.status = "returned" /\ call.ret2 = Pending
  /\ call' = [call EXCEPT !.ret2 =
                updatePRBodyWithJiraLink(<<>>, call.ret.value, call.link, call.mode)]
  /\ UNCHANGED runVars

\* removeExistingJiraLink(prBody)
CallRemove ==
  /\ call.op = "remove" /\ call.ret = Pending
  /\ call' = [call EXCEPT !.ret = removeExistingJiraLink(<<>>, call.body)]
  /\ UNCHANGED runVars

\* removeExistingJiraLink applied to its own result
CallRemoveAgain ==
  /\ call.op = "remove" /\ call.ret.status = "returned" /\ call.ret2 = Pending
  /\ call' = [call EXCEPT !.ret2 = removeExistingJiraLink(<<>>, call.ret.value)]
  /\ UNCHANGED runVars

\* extractJiraTicket(text)
CallExtract ==
  /\ call.op = "extract" /\ call.ret = Pending
  /\ call' = [call EXCEPT !.ret = extractJiraTicket(<<>>, call.title)]
  /\ UNCHANGED runVars

\* extractJiraTicket(text) under the issue-pattern input of the call
CallExtractTicket ==
  /\ call.op = "link" /\ call.ret = Pending
  /\ call' = [call EXCEPT !.ret = extractJiraTicket(call.pattern, call.title)]
  /\ UNCHANGED runVars

\* generateJiraLink(jiraBaseUrl, jiraTicket) for the ticket found, with the
\* base URL as validateInputVariables returns it
CallGenerateLink ==
  /\ call.op = "link" /\ call.ret.status = "returned" /\ Truthy(call.ret.value)
  /\ call.ret2 = Pending
  /\ LET v == validateInputVariables([token |-> "t", jiraBaseUrl |-> call.url,
                                      jiraLinkMode |-> ""])
     IN call' = [call EXCEPT !.ret2 =
                   Returned(generateJiraLink(v.jiraBaseUrl, call.ret.value))]
  /\ UNCHANGED runVars

FnNext ==
  \/ CallUpdate
  \/ CallUpdateAgain
  \/ CallRemove
  \/ CallRemoveAgain
  \/ CallExtract
  \/ CallExtractTicket
  \/ CallGenerateLink

FnSpec == FnInit /\ [][FnNext]_vars

\* ------------------------------------------------------------------------
\* index.ts: run().  A run is cut at its two awaits: the synchronous code up
\* to the pulls.get call, the code from the pulls.get response up to the
\* pulls.update call, and the code after the pulls.update response.
\* ------------------------------------------------------------------------
Init ==
  /\ description \in InitBodies \cup {Null}
  /\ title \in PrTitles
  /\ RunInit
  /\ workflow = NoInputs
  /\ call = NoCall

Fail(r, why) ==
  /\ pc' = [pc EXCEPT ![r] = "failed"]
  /\ failure' = [failure EXCEPT ![r] = why]

EarlyFailureNoPrNumberCheck(in) ==
  IF in.eventName # "pull_request" THEN "event"
  ELSE IF ~validateInputVariables(in).ok THEN validateInputVariables(in).error
  ELSE ""

\* The outcome of the code of run() before the first await: "" when
\* pulls.get is called, else the reason of the failure.
EarlyFailure(in) ==
  IF in.eventName # "pull_request" THEN "event"
  ELSE IF ~validateInputVariables(in).ok THEN validateInputVariables(in).error
  ELSE IF ~in.hasPrNumber THEN "pr-number"
  ELSE ""

\* The event triggers a run: event check, validateInputVariables, the
\* pull-request number check, then the pulls.get call.
RunStart(r) ==
  /\ pc[r] = "idle"
  /\ runs < MaxRuns
  /\ runs' = runs + 1
  /\ \E in \in Inputs :
       /\ inputs' = [inputs EXCEPT ![r] = in]
       /\ IF EarlyFailure(in) # ""
          THEN /\ Fail(r, EarlyFailure(in))
               /\ UNCHANGED getCalls
          ELSE /\ pc' = [pc EXCEPT ![r] = "awaitGet"]
               /\ getCalls' = [getCalls EXCEPT ![r] = @ + 1]
               /\ UNCHANGED failure
  /\ UNCHANGED <<description, title, prTitle, prBody, newBody, updateCalls,
                 writes, workflow, call>>

\* The same for a run that takes its event and inputs from the workflow file.
WorkflowRunStart(r) ==
  /\ pc[r] = "idle"
  /\ runs < MaxWorkflowRuns
  /\ runs' = runs + 1
  /\ inputs' = [inputs EXCEPT ![r] = workflow]
  /\ IF EarlyFailure(workflow) # ""
     THEN /\ Fail(r, EarlyFailure(workflow))
          /\ UNCHANGED getCalls
     ELSE /\ pc' = [pc EXCEPT ![r] = "awaitGet"]
          /\ getCalls' = [getCalls EXCEPT ![r] = @ + 1]
          /\ UNCHANGED failure
  /\ UNCHANGED <<description, title, prTitle, prBody, newBody, updateCalls,
                 writes, workflow, call>>

\* handleJiraTicketFound / handleNoJiraTicket up to the write decision: the
\* reconciled body, or the error thrown.
Reconcile(in, fetchedTitle, fetchedBody) ==
  LET v == validateInputVariables(in)
      jiraTicket == extractJiraTicket(in.issuePattern, fetchedTitle)
  IN IF jiraTicket.status = "threw" THEN jiraTicket
     ELSE IF Truthy(jiraTicket.value)
          THEN updatePRBodyWithJiraLink(in.issuePattern, fetchedBody,
                 generateJiraLink(v.jiraBaseUrl, jiraTicket.value), v.jiraLinkMode)
          ELSE removeExistingJiraLink(in.issuePattern, fetchedBody)

\* if (newBody !== prBody) / if (cleanedBody !== prBody): the write decision.
ShouldWriteAlways(reconciled, fetched) == TRUE

ShouldWrite(reconciled, fetched) == reconciled # fetched

\* pulls.get resolves: the snapshot is taken, the ticket extracted and the
\* body reconciled; pulls.update is called when the body changed.
GetResolved(r) ==
  /\ pc[r] = "awaitGet"
  /\ LET fetchedTitle == title
         fetchedBody == IF description = Null THEN <<>> ELSE description
         res == Reconcile(inputs[r], fetchedTitle, fetchedBody)
     IN /\ prTitle' = [prTitle EXCEPT ![r] = fetchedTitle]
        /\ prBody' = [prBody EXCEPT ![r] = fetchedBody]
        /\ IF res.status = "threw"
           THEN /\ Fail(r, "error")
                /\ UNCHANGED <<newBody, updateCalls, writes>>
           ELSE IF ShouldWrite(res.value, fetchedBody)
           THEN /\ pc' = [pc EXCEPT ![r] = "awaitUpdate"]
                /\ newBody' = [newBody EXCEPT ![r] = res.value]
                /\ updateCalls' = [updateCalls EXCEPT ![r] = @ + 1]
                /\ writes' = writes + 1
                /\ UNCHANGED failure
           ELSE /\ pc' = [pc EXCEPT ![r] = "done"]
                /\ UNCHANGED <<newBody, updateCalls, writes, failure>>
  /\ UNCHANGED <<description, title, inputs, getCalls, runs, workflow, call>>

\* pulls.get rejects (transport or authorization error).
GetRejected(r) ==
  /\ pc[r] = "awaitGet"
  /\ Fail(r, "pulls.get rejected")
  /\ UNCHANGED <<description, title, inputs, prTitle, prBody, newBody, getCalls,
                 updateCalls, runs, writes, workflow, call>>

\* pulls.update resolves: the host holds the new description.
UpdateResolved(r) ==
  /\ pc[r] = "awaitUpdate"
  /\ description' = newBody[r]
  /\ pc' = [pc EXCEPT ![r] = "done"]
  /\ UNCHANGED <<title, inputs, prTitle, prBody, newBody, getCalls, updateCalls,
                 failure, runs, writes, workflow, call>>

\* pulls.update rejects.
UpdateRejected(r) ==
  /\ pc[r] = "awaitUpdate"
  /\ Fail(r, "pulls.update rejected")
  /\ UNCHANGED <<description, title, inputs, prTitle, prBody, newBody, getCalls,
                 updateCalls, runs, writes, workflow, call>>

\* The process of the run exits; nothing of the run is kept.
RunEnd(r) ==
  /\ pc[r] \in {"done", "failed"}
  /\ pc' = [pc EXCEPT ![r] = "idle"]
  /\ inputs' = [inputs EXCEPT ![r] = NoInputs]
  /\ prTitle' = [prTitle EXCEPT ![r] = <<>>]
  /\ prBody' = [prBody EXCEPT ![r] = <<>>]
  /\ newBody' = [newBody EXCEPT ![r] = <<>>]
  /\ getCalls' = [getCalls EXCEPT ![r] = 0]
  /\ updateCalls' = [updateCalls EXCEPT ![r] = 0]
  /\ failure' = [failure EXCEPT ![r] = ""]
  /\ UNCHANGED <<description, title, runs, writes, workflow, call>>

\* The author edits the title while no run is in progress.
EditTitle ==
  /\ \A r \in Runners : pc[r] = "idle"
  /\ \E t \in PrTitles : t # title /\ title' = t
  /\ UNCHANGED <<description, pc, inputs, prTitle, prBody, newBody, getCalls,
                 updateCalls, failure, runs, writes, workflow, call>>

\* Sequential runs: one run at a time.
Next ==
  \/ RunStart(1)
  \/ GetResolved(1)
  \/ GetRejected(1)
  \/ UpdateResolved(1)
  \/ UpdateRejected(1)
  \/ RunEnd(1)
  \/ EditTitle

Spec == Init /\ [][Next]_vars

\* ------------------------------------------------------------------------
\* Runs of one workflow: the event and the inputs are those of the workflow
\* file, the same for every run, and such that a run gets past validation.
\* ------------------------------------------------------------------------
WorkflowInputs ==
  [eventName : {"pull_request"}, token : {"t"}, jiraBaseUrl : ValidBaseUrlInputs,
   jiraLinkMode : {"", "body-start", "body-end"}, issuePattern : FnPatterns,
   hasPrNumber : {TRUE}]

WorkflowInit ==
  /\ description \in InitBodies \cup {Null}
  /\ title \in PrTitles
  /\ RunInit
  /\ workflow \in WorkflowInputs
  /\ call = NoCall

\* Successful sequential runs, the title and the workflow held fixed.
SeqNext ==
  \/ WorkflowRunStart(1)
  \/ GetResolved(1)
  \/ UpdateResolved(1)
  \/ RunEnd(1)

SeqSpec == WorkflowInit /\ [][SeqNext]_vars

\* The author edits the title at any time.
EditTitleAnytime ==
  /\ \E t \in PrTitles : t # title /\ title' = t
  /\ UNCHANGED <<description, pc, inputs, prTitle, prBody, newBody, getCalls,
                 updateCalls, failure, runs, writes, workflow, call>>

\* Overlapping runs of the workflow for the same pull request.
ConcNext ==
  \/ \E r \in Runners :
       \/ runs < MaxOverlappingRuns /\ WorkflowRunStart(r)
       \/ GetResolved(r)
       \/ GetRejected(r)
       \/ UpdateResolved(r)
       \/ UpdateRejected(r)
       \/ RunEnd(r)
  \/ EditTitleAnytime

\* The workflow uses the default issue pattern.
ConcInit ==
  /\ WorkflowInit
  /\ workflow.issuePattern = <<>>

ConcSpec == ConcInit /\ [][ConcNext]_vars

\* ------------------------------------------------------------------------
\* Properties
\* ------------------------------------------------------------------------
HasLinkLine(body) == LinkLineCount(body) > 0

\* C1 (as claimed): applying updatePRBodyWithJiraLink to its own result with
\* the same link and a mode in {body-start, body-end} returns that result
\* unchanged, so the second application reports no change.
C1_UpdateIdempotent ==
  (call.op = "update" /\ call.mode \in JIRA_LINK_MODES /\ call.ret2 # Pending)
    => call.ret2 = call.ret

\* C2 (as claimed): starting from a description with at most one link line,
\* after any sequence of runs the description holds at most one link line.
C2_AtMostOneLinkLine ==
  description # Null => LinkLineCount(description) <= 1

\* C3 (as claimed): when the body has a link line, the result is the body
\* with the text of that line replaced by the link; every character before
\* the line and from the newline ending it on is unchanged.
C3_ReplacePreservesRest ==
  (call.op = "update" /\ call.ret # Pending /\ HasLinkLine(call.body)) =>
    LET from == CHOOSE i \in LinkLineStarts(call.body) :
                  \A j \in LinkLineStarts(call.body) : i <= j
        lineLen == RunLength(NotNewline, call.body, from)
    IN call.ret = Returned(SubSeq(call.body, 1, from - 1) \o call.link \o
                           SubSeq(call.body, from + lineLen, Len(call.body)))

\* C4 (as claimed): for a body without a link line removeExistingJiraLink
\* returns the body unchanged, whitespace at its ends included.
C4_RemoveWithoutLinkIsNoop ==
  (call.op = "remove" /\ call.ret # Pending /\ ~HasLinkLine(call.body))
    => call.ret = Returned(call.body)

\* What the run of runner r reconciled from its snapshot.
Reconciled(r) == Reconcile(inputs[r], prTitle[r], prBody[r])

WriteAtMostOnceAfterFetchOnChange(r) ==
  /\ updateCalls[r] <= 1
  /\ updateCalls[r] = 1 =>
       /\ getCalls[r] = 1
       /\ pc[r] \in {"awaitUpdate", "done", "failed"}
       /\ Reconciled(r) = Returned(newBody[r])
       /\ newBody[r] # prBody[r]
  /\ (pc[r] = "done" /\ Reconciled(r) = Returned(prBody[r])) => updateCalls[r] = 0

\* C5 (as claimed): pulls.update is called at most once per run, only after
\* the fetch and only when the reconciled body differs from the fetched one;
\* a run that fails at any step issues no write.
C5_Original ==
  /\ WriteAtMostOnceAfterFetchOnChange(1)
  /\ pc[1] = "failed" => updateCalls[1] = 0

\* C5 (amended): pulls.update is called at most once per run, only after the
\* fetch and only when the reconciled body differs from the fetched one; a
\* run whose reconciled body equals the fetched body, or that fails at any
\* step before the pulls.update call, issues no write.
C5_WriteOnlyOnChange ==
  /\ WriteAtMostOnceAfterFetchOnChange(1)
  /\ (pc[1] = "failed" /\ failure[1] # "pulls.update rejected") => updateCalls[1] = 0

C5_Witness ==
  pc[1] = "done" /\ updateCalls[1] = 1 /\ description = newBody[1]

Blank == <<"NL", "NL">>

\* C6 (as claimed): on insertion body-start yields link, blank line, trimmed
\* body; body-end yields trimmed body, blank line, link; a body that is empty
\* or only whitespace yields the link.
C6_Original ==
  (call.op = "update" /\ call.ret # Pending /\ call.mode \in JIRA_LINK_MODES
     /\ ~HasLinkLine(call.body)) =>
    call.ret = Returned(IF Trim(call.body) = <<>> THEN call.link
                        ELSE IF call.mode = "body-start"
                             THEN call.link \o Blank \o Trim(call.body)
                             ELSE Trim(call.body) \o Blank \o call.link)

\* C6 (amended): on insertion body-start yields link, blank line, the body
\* without its trailing whitespace; body-end yields the body without its
\* leading whitespace, blank line, link; a body that is empty or only
\* whitespace yields the link.
C6_Placement ==
  (call.op = "update" /\ call.ret # Pending /\ call.mode \in JIRA_LINK_MODES
     /\ ~HasLinkLine(call.body)) =>
    call.ret = Returned(IF Trim(call.body) = <<>> THEN call.link
                        ELSE IF call.mode = "body-start"
                             THEN call.link \o Blank \o TrimEnd(call.body)
                             ELSE TrimStart(call.body) \o Blank \o call.link)

C6_Witness ==
  /\ call.op = "update" /\ call.ret.status = "returned"
  /\ call.mode = "body-start" /\ ~HasLinkLine(call.body)
  /\ TrimStart(call.body) # call.body /\ TrimEnd(call.body) # call.body
  /\ Trim(call.body) # <<>>

\* C7 (as claimed): with a mode other than body-start and body-end,
\* updatePRBodyWithJiraLink throws for every body and never returns one.
C7_UnsupportedModeThrows ==
  (call.op = "update" /\ call.ret # Pending /\ call.mode \notin JIRA_LINK_MODES)
    => call.ret.status = "threw"

\* C8 (as claimed): a run whose issue-pattern input is rejected by the regex
\* engine issues neither pulls.get nor pulls.update.
C8_InvalidPatternNoNetwork ==
  ~getJiraPatterns(inputs[1].issuePattern).ok
    => (getCalls[1] = 0 /\ updateCalls[1] = 0)

\* The early fatal conditions of a run, stated on its raw inputs.
EarlyFatal(in) ==
  \/ in.eventName # "pull_request"
  \/ ~in.hasPrNumber
  \/ in.token = ""
  \/ in.jiraBaseUrl = <<>>
  \/ ~IsValidURL(in.jiraBaseUrl)
  \/ in.jiraLinkMode \notin (JIRA_LINK_MODES \cup {""})

\* C9: a run triggered by another event than pull_request, or without a
\* pull-request number, or with a missing token, a missing or invalid base
\* URL or an invalid placement mode ends failed without calling pulls.get or
\* pulls.update.
C9_EarlyFailuresNoNetwork ==
  (pc[1] # "idle" /\ EarlyFatal(inputs[1]))
    => (pc[1] = "failed" /\ getCalls[1] = 0 /\ updateCalls[1] = 0)

C9_Witness ==
  /\ pc[1] = "failed" /\ failure[1] = "pr-number"
  /\ inputs[1].eventName = "pull_request" /\ ~inputs[1].hasPrNumber
  /\ getCalls[1] = 0

\* PROJECTKEY-NUMBER: 2 to 10 uppercase letters, a hyphen, a positive integer
\* without leading zeros.
IsStandardKey(t) ==
  LET letters == RunLength(Upper, t, 1)
      digits == RunLength(Digit, t, letters + 2)
  IN /\ letters >= 2 /\ letters <= 10
     /\ Len(t) >= letters + 2
     /\ t[letters + 1] = "-"
     /\ digits >= 1 /\ letters + 1 + digits = Len(t)
     /\ t[letters + 2] # "0"

\* C10 (as claimed): with the default pattern extractJiraTicket returns a
\* ticket only of the form PROJECTKEY-NUMBER (2-10 uppercase letters, positive
\* number without leading zeros).
C10_DefaultTicketFormat ==
  (call.op = "extract" /\ call.ret.status = "returned" /\ call.ret.value # Null)
    => IsStandardKey(call.ret.value)

\* The text before a link line without the blank lines that end it, and the
\* text after a link line without the blank lines that begin it.
TextBefore(before) ==
  LET p == Len(TrimEnd(before))
  IN IF p = 0 THEN <<>>
     ELSE SubSeq(before, 1, p + RunLength(NotNewline, before, p + 1))

RECURSIVE LastNewline(_, _)
LastNewline(s, k) ==
  IF k = 0 THEN 0 ELSE IF s[k] = "NL" THEN k ELSE LastNewline(s, k - 1)

TextAfter(after) ==
  LET w == RunLength(Space, after, 1)
  IN IF w = Len(after) THEN <<>>
     ELSE SubSeq(after, LastNewline(after, w) + 1, Len(after))

JoinLines(a, b) ==
  IF a = <<>> THEN b ELSE IF b = <<>> THEN a ELSE a \o <<"NL">> \o b

\* C11 (as claimed): without a ticket, for a body with one link line and text
\* around it, removeExistingJiraLink returns the surrounding text with the
\* link line and the blank lines adjacent to it removed, and the body changed.
C11_RemovalLeavesNoBlankLine ==
  (call.op = "remove" /\ call.ret # Pending /\ LinkLineCount(call.body) = 1) =>
    LET from == CHOOSE i \in LinkLineStarts(call.body) : TRUE
        lineLen == RunLength(NotNewline, call.body, from)
        before == SubSeq(call.body, 1, from - 1)
        after == SubSeq(call.body, from + lineLen, Len(call.body))
    IN (Trim(before) # <<>> \/ Trim(after) # <<>>) =>
         /\ call.ret = Returned(Trim(JoinLines(TextBefore(before), TextAfter(after))))
         /\ call.ret.value # call.body

\* C13 (as claimed): removeExistingJiraLink applied to its own result returns
\* that result unchanged.
C13_RemoveIdempotent ==
  (call.op = "remove" /\ call.ret2 # Pending) => call.ret2 = call.ret

\* C12 (as claimed): the link generated for a ticket that extractJiraTicket
\* returned under an issue pattern is matched as a full line by the
\* JIRA_LINK_LINE_REGEX built from the same pattern.
C12_LinkRoundTrip ==
  (call.op = "link" /\ call.ret2.status = "returned") =>
    LET m == Exec(getJiraPatterns(call.pattern).JIRA_LINK_LINE_REGEX, call.ret2.value)
    IN m.ok /\ m.from = 1 /\ m.to = Len(call.ret2.value) + 1

\* C14 (as claimed): with the title and the workflow held fixed, successful
\* sequential runs issue at most two writes in total, and from the third run
\* on no write is issued.
C14_AtMostTwoWrites ==
  /\ writes <= 2
  /\ runs >= 3 => updateCalls[1] = 0

\* C15 (as claimed): when runs for the same pull request overlap, with the
\* title possibly edited in between, the description never holds two link
\* lines.
C15_AtMostOneLinkLineConcurrent ==
  description = Null \/ LinkLineCount(description) < 2

====
